---------------------------- MODULE Spec2Model ----------------------------
(***************************************************************************)
(* Model of visa_checker.py: the in-page interception hook                 *)
(* (inject_fetch_hook), its supervisor (_ensure_fetch_hook), the captcha   *)
(* extraction / solving chain (attempt_captcha_solve), the login flow      *)
(* (perform_login) and the orchestrator (main).                            *)
(***************************************************************************)
EXTENDS Integers, Sequences, FiniteSets, TLC

(***************************************************************************)
(* Bounds of the model.                                                    *)
(***************************************************************************)
\* calendar days are 1..MaxDay (YYYY-MM-DD strings, in calendar order)
MaxDay == 2
\* longest ScheduleDays list fed to analyseAvailability on its own
MaxLen == 3
\* longest ScheduleDays list in a response seen by the installed hook
MaxHookLen == 2
\* hook_js evaluations per page context that are told apart (more count as MaxEvals)
MaxEvals == 2
\* rounds of attempt_captcha_solve
MaxRounds == 7

(***************************************************************************)
(* Program constants.                                                      *)
(***************************************************************************)
MAX_RETRIES == 5
\* START_DATE / END_DATE default: the empty string
Unset == 0
\* a ScheduleDays entry whose Date does not parse (Invalid Date)
Unparseable == 0
\* seconds in a day, and the offsets of 'T00:00:00' and 'T23:59:59'
DaySeconds == 86400
T000000 == 0
T235959 == 86399
\* the time value of an Invalid Date
NaN == -1

VARIABLES
    \* ---- analyseAvailability applied on its own ----
    anaJson,        \* the parsed body handed to analyseAvailability
    anaStart,       \* START_DATE of the analysing hook
    anaEnd,         \* END_DATE of the analysing hook
    anaOut,         \* NoOut, or what the call computed and caused
    \* ---- page, hook and supervisor ----
    disk,           \* slot_prefs.json: [start_date, end_date]
    hookInstalled,  \* window.__APPT_HOOK_INSTALLED__
    wrapLayers,     \* how many times fetch / XHR.send are wrapped
    evals,          \* hook_js evaluations in this page context, up to MaxEvals
    START_DATE,     \* constants of the installed hook
    END_DATE,
    reloadPending,  \* a setTimeout(location.href = REFRESH_URL) is armed
    req,            \* the page's request in flight, or NoReq
    last,           \* what the last response caused, or NoLast
    mainPc,         \* position of main()
    sup,            \* the _ensure_fetch_hook task: "off" | "running" | "dead"
    injectFailed,   \* an injection attempt of the supervisor has raised
    installs,       \* "none" | "first" | "again": hook installations so far
    \* ---- captcha ----
    capPc,          \* position inside attempt_captcha_solve
    capImg,         \* the image the page shows in this round
    attempt,        \* loop index of the running for-loop
    polls,          \* page.select polls of this _extract_captcha_data_url call
    requests,       \* vision requests of this _solve_captcha_with_openai call
    registry,       \* attempt_captcha_solve._attempt_registry
    solveCalls,     \* calls of _solve_captcha_with_openai per image
    sent,           \* requests sent to the vision service per image
    rounds,         \* attempt_captcha_solve invocations so far
    capResult,      \* return value of the last attempt_captcha_solve
    \* ---- main and perform_login ----
    startPrefs,     \* the preferences main() loaded (or saved) at startup
    page,           \* what the live page shows: [idp, pwd, wr]
    decision,       \* the latest classification main() acted on
    loginPc,        \* position inside perform_login
    found,          \* controls of the first screen located so far
    elemPolls,      \* polls of the running _wait_for_element call
    kbaPolls,       \* iterations of the security-question wait
    urlPolls,       \* iterations of the post-login URL wait
    rendered,       \* kba inputs found by the iteration that broke the wait
    filled,         \* kba inputs an answer was typed into
    clicks,         \* the submits clicked, in order
    loginResult,    \* "none" | "Authenticated" | "Failed" | "Raised"
    credsOk,        \* USERNAME and PASSWORD are configured
    answers         \* the selectors SECURITY_ANSWERS has an answer for

anaVars == <<anaJson, anaStart, anaEnd, anaOut>>
hookVars == <<disk, hookInstalled, wrapLayers, evals, START_DATE, END_DATE,
              reloadPending, req, last, mainPc, sup, injectFailed, installs>>
capVars == <<capPc, capImg, attempt, polls, requests, registry, solveCalls, sent,
             rounds, capResult>>
\* hookVars without mainPc and sup, which main() writes
hookRest == <<disk, hookInstalled, wrapLayers, evals, START_DATE, END_DATE,
              reloadPending, req, last, injectFailed, installs>>
loginVars == <<loginPc, found, elemPolls, kbaPolls, urlPolls, rendered, filled,
               clicks, loginResult>>
orchVars == <<startPrefs, page, decision, loginVars, credsOk, answers>>
vars == <<anaVars, hookVars, capVars, orchVars>>

(***************************************************************************)
(* Dates and response bodies.                                              *)
(***************************************************************************)
Days == 1..MaxDay
\* a date preference: a YYYY-MM-DD day or the empty string
PrefDates == Days \cup {Unset}
\* the Date of a ScheduleDays entry: a day, or something that does not parse
EntryDates == Days \cup {Unparseable}

SeqsUpTo(S, n) == UNION {[1..k -> S] : k \in 0..n}

\* a response body: text that is not JSON ("invalid"), JSON without
\* ScheduleDays ("nodays"), ScheduleDays not an array ("notarray"), or an array
Bodies(n) ==
    {[kind |-> k, days |-> <<>>] : k \in {"invalid", "nodays", "notarray"}}
        \cup {[kind |-> "array", days |-> d] : d \in SeqsUpTo(EntryDates, n)}

\* new Date(str + 'T..'): the time value, NaN for an Invalid Date
NewDate(day, offset) ==
    IF day \in Days THEN day * DaySeconds + offset ELSE NaN

\* the comparison with a start boundary that is left out: dt > s
InRangeExclusiveStart(dt, s, e) ==
    /\ dt # NaN /\ s # NaN /\ e # NaN
    /\ dt > s /\ dt <= e

\* dt >= s && dt <= e on Date objects: false as soon as one side is NaN
InRange(dt, s, e) ==
    /\ dt # NaN /\ s # NaN /\ e # NaN
    /\ dt >= s /\ dt <= e

\* the filter callback of analyseAvailability
Matches(d, start, end) ==
    InRange(NewDate(d, T000000), NewDate(start, T000000), NewDate(end, T235959))

\* a filter that applies whichever single bound is set
HasSlotsOneSided(json, start, end) ==
    IF (start # Unset \/ end # Unset) /\ json.kind = "array"
    THEN \E i \in 1..Len(json.days) :
            LET dt == NewDate(json.days[i], T000000)
            IN /\ dt # NaN
               /\ start # Unset => dt >= NewDate(start, T000000)
               /\ end # Unset => dt <= NewDate(end, T235959)
    ELSE json.kind = "array" /\ Len(json.days) > 0

\* hasSlots as analyseAvailability computes it
HasSlots(json, start, end) ==
    IF start # Unset /\ end # Unset /\ json.kind = "array"
    THEN Len(SelectSeq(json.days, LAMBDA d : Matches(d, start, end))) > 0
    ELSE json.kind = "array" /\ Len(json.days) > 0

\* analyseAvailability with the notification outside the if (hasSlots)
AnalyseAvailabilityNotifyAlways(json, start, end) ==
    [hasSlots |-> HasSlots(json, start, end), notified |-> 1, reloads |-> 1]

\* analyseAvailability(json): hasSlots, the notification fetches and the
\* reload timers it causes
AnalyseAvailability(json, start, end) ==
    LET hasSlots == HasSlots(json, start, end)
    IN [hasSlots |-> hasSlots,
        notified |-> IF hasSlots THEN 1 ELSE 0,
        reloads  |-> 1]


(***************************************************************************)
(* analyseAvailability applied on its own to every body and preference.    *)
(***************************************************************************)
NoOut == [done |-> FALSE, hasSlots |-> FALSE, notified |-> 0, reloads |-> 0]

AnaIdle ==
    /\ anaJson = [kind |-> "nodays", days |-> <<>>]
    /\ anaStart = Unset
    /\ anaEnd = Unset
    /\ anaOut = NoOut

AnaInit ==
    /\ anaJson \in {b \in Bodies(MaxLen) : b.kind # "invalid"}
    /\ anaStart \in PrefDates
    /\ anaEnd \in PrefDates
    /\ anaOut = NoOut

AnalyseCall ==
    /\ ~anaOut.done
    /\ anaOut' = [done |-> TRUE] @@ AnalyseAvailability(anaJson, anaStart, anaEnd)
    /\ UNCHANGED <<anaJson, anaStart, anaEnd, hookVars, capVars, orchVars>>

(***************************************************************************)
(* The page context, the hook and its supervisor.                          *)
(***************************************************************************)
Prefs == [start_date : PrefDates, end_date : PrefDates]

NoReq == [active |-> FALSE, path |-> "fetch", target |-> FALSE,
          layers |-> 0, evals |-> 0]

NoLast == [seen |-> FALSE, path |-> "fetch", target |-> FALSE,
           body |-> [kind |-> "nodays", days |-> <<>>],
           observed |-> 0, analysed |-> 0, hasSlots |-> FALSE,
           notified |-> 0, reloads |-> 0, evals |-> 0,
           rejected |-> FALSE, hookErr |-> FALSE,
           caller |-> [kind |-> "response", bodyUsed |-> FALSE]]

HookInit ==
    /\ disk \in Prefs
    /\ hookInstalled = FALSE
    /\ wrapLayers = 0
    /\ evals = 0
    /\ START_DATE = Unset
    /\ END_DATE = Unset
    /\ reloadPending = FALSE
    /\ req = NoReq
    /\ last = NoLast
    /\ mainPc = "nav"
    /\ sup = "off"
    /\ injectFailed = FALSE
    /\ installs = "none"

\* a full navigation discards the page's script context
ContextReset ==
    /\ hookInstalled' = FALSE
    /\ wrapLayers' = 0
    /\ evals' = 0
    /\ START_DATE' = Unset
    /\ END_DATE' = Unset
    /\ reloadPending' = FALSE
    /\ req' = NoReq
    /\ last' = NoLast

\* hook_js without its guard line
GuardNever == FALSE

\* if (window.__APPT_HOOK_INSTALLED__) return;
GuardHit == hookInstalled

\* hook_js evaluated in the page: the guard, then the flag, the constants
\* and the wrappers of fetch and XMLHttpRequest.prototype.send
HookJs ==
    /\ evals' = IF evals < MaxEvals THEN evals + 1 ELSE evals
    /\ IF GuardHit
       THEN UNCHANGED <<hookInstalled, wrapLayers, START_DATE, END_DATE>>
       ELSE /\ hookInstalled' = TRUE
            /\ wrapLayers' = wrapLayers + 1
            /\ START_DATE' = disk.start_date
            /\ END_DATE' = disk.end_date

\* _ensure_fetch_hook without its try / except: the exception ends the task
DiesOnInjectError == "dead"

\* what the except clause of _ensure_fetch_hook leaves the task in
AfterInjectError == "running"

\* one iteration of _ensure_fetch_hook whose inject_fetch_hook succeeds
TickOk ==
    /\ sup = "running"
    /\ HookJs
    /\ installs' = IF GuardHit THEN installs
                   ELSE IF installs = "none" THEN "first" ELSE "again"
    /\ UNCHANGED <<disk, reloadPending, req, last, mainPc, sup, injectFailed,
                   anaVars, capVars, orchVars>>

\* one iteration whose inject_fetch_hook raises (e.g. mid-navigation)
TickFail ==
    /\ sup = "running"
    /\ sup' = AfterInjectError
    /\ injectFailed' = TRUE
    /\ UNCHANGED <<disk, hookInstalled, wrapLayers, evals, START_DATE, END_DATE,
                   reloadPending, req, last, mainPc, installs, anaVars, capVars, orchVars>>

\* main: window.location.assign(APPOINTMENT_URL), then create_task
MainNavigateOk ==
    /\ mainPc = "nav"
    /\ ContextReset
    /\ sup' = "running"
    /\ mainPc' = "idle"
    /\ UNCHANGED <<disk, injectFailed, installs, anaVars, capVars, orchVars>>

\* main: the navigation raises; the except clause skips create_task
MainNavigateFail ==
    /\ mainPc = "nav"
    /\ mainPc' = "idle"
    /\ UNCHANGED <<disk, hookInstalled, wrapLayers, evals, START_DATE, END_DATE,
                   reloadPending, req, last, sup, injectFailed, installs,
                   anaVars, capVars, orchVars>>

\* the timer armed by analyseAvailability fires: location.href = REFRESH_URL
TimerReload ==
    /\ reloadPending
    /\ ContextReset
    /\ UNCHANGED <<disk, mainPc, sup, injectFailed, installs, anaVars, capVars, orchVars>>

\* any other full navigation of the page (redirect, manual reload)
Navigate ==
    /\ ContextReset
    /\ UNCHANGED <<disk, mainPc, sup, injectFailed, installs, anaVars, capVars, orchVars>>

\* slot_prefs.json is rewritten while the process runs
PrefStoreChange ==
    /\ \E p \in Prefs \ {disk} : disk' = p
    /\ UNCHANGED <<hookInstalled, wrapLayers, evals, START_DATE, END_DATE,
                   reloadPending, req, last, mainPc, sup, injectFailed, installs,
                   anaVars, capVars, orchVars>>

\* the page calls fetch(url) or xhr.send(): the wrappers in place at that
\* moment are the ones that will see the response
PageRequest ==
    /\ ~req.active
    /\ \E path \in {"fetch", "xhr"}, target \in BOOLEAN :
          req' = [active |-> TRUE, path |-> path, target |-> target,
                  layers |-> wrapLayers, evals |-> evals]
    /\ last' = NoLast
    /\ UNCHANGED <<disk, hookInstalled, wrapLayers, evals, START_DATE, END_DATE,
                   reloadPending, mainPc, sup, injectFailed, installs,
                   anaVars, capVars, orchVars>>

\* url.includes(TARGET_SUBSTR) in each wrapper that saw the call
Captures(r) == IF r.target THEN r.layers ELSE 0

\* res.clone().json() / JSON.parse(this.responseText): analyseAvailability
\* runs only when the body parses
Analyses(r, body) == IF body.kind = "invalid" THEN 0 ELSE Captures(r)

\* the wrappers without their try / catch: an error raised while matching
\* reaches the page's caller
CallerGetsHookErrors(r, rejected, hookErr) ==
    IF rejected THEN [kind |-> "rejection", bodyUsed |-> FALSE]
    ELSE IF hookErr /\ r.layers > 0
         THEN [kind |-> "hookerror", bodyUsed |-> FALSE]
         ELSE [kind |-> "response", bodyUsed |-> FALSE]

\* what the page's own caller gets back from the wrapped fetch / send:
\* await origFetch(...) rethrows a rejection; otherwise the matching runs
\* inside try / catch, the body is read from res.clone(), and res is returned
CallerGets(r, rejected, hookErr) ==
    IF rejected THEN [kind |-> "rejection", bodyUsed |-> FALSE]
    ELSE [kind |-> "response", bodyUsed |-> FALSE]

\* the outcomes of one request: the network fails (rejected), or a response
\* with some body arrives and the wrapper's URL matching may itself raise
Outcomes(r) ==
    {[rejected |-> TRUE, hookErr |-> FALSE, body |-> NoLast.body]}
        \cup {[rejected |-> FALSE, hookErr |-> FALSE, body |-> b] :
                 b \in IF r.target THEN Bodies(MaxHookLen) ELSE {NoLast.body}}
        \cup {[rejected |-> FALSE, hookErr |-> TRUE, body |-> NoLast.body] :
                 x \in IF r.layers > 0 THEN {1} ELSE {}}

\* the response (or the failure) arrives: every wrapper that saw the call
\* matches the URL, parses the body and, if it parses, runs
\* analyseAvailability
Receive ==
    /\ req.active
    /\ \E o \in Outcomes(req) :
         LET quiet == o.rejected \/ o.hookErr
             n == IF quiet THEN 0 ELSE Analyses(req, o.body)
             out == AnalyseAvailability(o.body, START_DATE, END_DATE)
         IN /\ last' = [seen |-> TRUE, path |-> req.path, target |-> req.target,
                        body |-> o.body,
                        observed |-> IF quiet THEN 0 ELSE Captures(req),
                        analysed |-> n,
                        hasSlots |-> n > 0 /\ out.hasSlots,
                        notified |-> n * out.notified,
                        reloads |-> n * out.reloads,
                        evals |-> req.evals,
                        rejected |-> o.rejected, hookErr |-> o.hookErr,
                        caller |-> CallerGets(req, o.rejected, o.hookErr)]
            /\ reloadPending' = (reloadPending \/ n * out.reloads > 0)
    /\ req' = NoReq
    /\ UNCHANGED <<disk, hookInstalled, wrapLayers, evals, START_DATE, END_DATE,
                   mainPc, sup, injectFailed, installs, anaVars, capVars,
                   orchVars>>


HookIdle ==
    /\ disk = [start_date |-> Unset, end_date |-> Unset]
    /\ hookInstalled = FALSE
    /\ wrapLayers = 0
    /\ evals = 0
    /\ START_DATE = Unset
    /\ END_DATE = Unset
    /\ reloadPending = FALSE
    /\ req = NoReq
    /\ last = NoLast
    /\ mainPc = "nav"
    /\ sup = "off"
    /\ injectFailed = FALSE
    /\ installs = "none"

(***************************************************************************)
(* The captcha chain: _extract_captcha_data_url,                           *)
(* _solve_captcha_with_openai and attempt_captcha_solve.                   *)
(***************************************************************************)
\* the data URLs the captcha element can rasterise to
Images == {"imgA", "imgB"}

CapIdle ==
    /\ capPc = "idle"
    /\ capImg = "imgA"
    /\ attempt = 0
    /\ polls = 0
    /\ requests = 0
    /\ registry = [i \in Images |-> 0]
    /\ solveCalls = [i \in Images |-> 0]
    /\ sent = [i \in Images |-> 0]
    /\ rounds = 0
    /\ capResult = "none"

\* a loop over range(MAX_RETRIES + 1)
LoopRunsOnceMore(a) == a <= MAX_RETRIES

\* for attempt in range(MAX_RETRIES)
LoopRuns(a) == a < MAX_RETRIES

\* the cap tested with > in place of >=
RegistryFullOffByOne(n) == n > MAX_RETRIES

\* if attempts >= MAX_RETRIES
RegistryFull(n) == n >= MAX_RETRIES

\* attempt_captcha_solve(page) is called
CaptchaStart ==
    /\ capPc = "idle"
    /\ rounds < MaxRounds
    /\ rounds' = rounds + 1
    /\ capPc' = "extract"
    /\ capImg' \in Images
    /\ attempt' = 0
    /\ polls' = 0
    /\ requests' = 0
    /\ capResult' = "running"
    /\ UNCHANGED <<registry, solveCalls, sent, anaVars, hookVars, orchVars>>

\* one iteration of the loop of _extract_captcha_data_url
ExtractPoll ==
    /\ capPc = "extract"
    /\ LoopRuns(attempt)
    /\ polls' = polls + 1
    /\ \E outcome \in {"absent", "placeholder", "error", "loaded"} :
          IF outcome = "loaded"
          THEN capPc' = "registry" /\ attempt' = attempt
          ELSE capPc' = capPc /\ attempt' = attempt + 1
    /\ UNCHANGED <<capImg, requests, registry, solveCalls, sent, rounds, capResult,
                   anaVars, hookVars, orchVars>>

\* the loop is exhausted: return None, and attempt_captcha_solve returns False
ExtractGiveUp ==
    /\ capPc = "extract"
    /\ ~LoopRuns(attempt)
    /\ capPc' = "idle"
    /\ capResult' = "notfound"
    /\ UNCHANGED <<capImg, attempt, polls, requests, registry, solveCalls, sent,
                   rounds, anaVars, hookVars, orchVars>>

\* the registry lookup, the cap and the increment before the solve
RegistryCheck ==
    /\ capPc = "registry"
    /\ IF RegistryFull(registry[capImg])
       THEN /\ capPc' = "idle"
            /\ capResult' = "capped"
            /\ UNCHANGED <<registry, solveCalls, attempt>>
       ELSE /\ registry' = [registry EXCEPT ![capImg] = @ + 1]
            /\ solveCalls' = [solveCalls EXCEPT ![capImg] = @ + 1]
            /\ capPc' = "solve"
            /\ attempt' = 0
            /\ capResult' = capResult
    /\ UNCHANGED <<capImg, polls, requests, sent, rounds, anaVars, hookVars,
                   orchVars>>

\* _solve_captcha_with_openai: OPENAI_API_KEY is not set
SolveNoKey ==
    /\ capPc = "solve"
    /\ attempt = 0
    /\ requests = 0
    /\ capPc' = "idle"
    /\ capResult' = "failure"
    /\ UNCHANGED <<capImg, attempt, polls, requests, registry, solveCalls, sent,
                   rounds, anaVars, hookVars, orchVars>>

\* one iteration of the loop of _solve_captcha_with_openai
SolveRequest ==
    /\ capPc = "solve"
    /\ LoopRuns(attempt)
    /\ requests' = requests + 1
    /\ sent' = [sent EXCEPT ![capImg] = @ + 1]
    /\ \E outcome \in {"text", "empty", "error"} :
          CASE outcome = "text" ->
                  capPc' = "fill" /\ attempt' = attempt /\ capResult' = capResult
            [] outcome = "empty" ->
                  capPc' = "idle" /\ attempt' = attempt /\ capResult' = "failure"
            [] OTHER ->
                  IF attempt < MAX_RETRIES - 1
                  THEN capPc' = capPc /\ attempt' = attempt + 1
                       /\ capResult' = capResult
                  ELSE capPc' = "idle" /\ attempt' = attempt
                       /\ capResult' = "failure"
    /\ UNCHANGED <<capImg, polls, registry, solveCalls, rounds, anaVars, hookVars,
                   orchVars>>

\* the response field is looked up and filled; the lookup or send_keys may
\* raise, and nothing in attempt_captcha_solve catches that
CaptchaFill ==
    /\ capPc = "fill"
    /\ capPc' = "idle"
    /\ capResult' \in {"filled", "noinput", "raised"}
    /\ UNCHANGED <<capImg, attempt, polls, requests, registry, solveCalls, sent,
                   rounds, anaVars, hookVars, orchVars>>

(***************************************************************************)
(* The session orchestrator: main() with is_waiting_room and               *)
(* is_login_required, and the login flow of perform_login.                 *)
(***************************************************************************)
\* _wait_for_element(page, selector, max_attempts = 10)
ElementPolls == 10

\* for attempt in range(30): the wait for the security-question inputs
KbaWaitPolls == 30

\* for attempt in range(30): the wait for the scheduling site's URL
UrlWaitPolls == 30

\* #kba1_response, #kba2_response, #kba3_response
Slots == {"kba1", "kba2", "kba3"}

\* the order in which the code looks them up and fills them
SlotNo(s) == CASE s = "kba1" -> 1 [] s = "kba2" -> 2 [] OTHER -> 3

\* what an inspection of the page can see: the identity provider's domain in
\* the URL, a password input, the waiting-room background
Pages == [idp : BOOLEAN, pwd : BOOLEAN, wr : BOOLEAN]

NoDecision == [made |-> FALSE, kind |-> "none", failed |-> FALSE,
               idp |-> FALSE, pwd |-> FALSE, wr |-> FALSE]

\* main() and perform_login have not run
OrchIdle ==
    /\ startPrefs = disk
    /\ page = [idp |-> FALSE, pwd |-> FALSE, wr |-> FALSE]
    /\ decision = NoDecision
    /\ loginPc = "idle"
    /\ found = {}
    /\ elemPolls = 0
    /\ kbaPolls = 0
    /\ urlPolls = 0
    /\ rendered = {}
    /\ filled = {}
    /\ clicks = <<>>
    /\ loginResult = "none"
    /\ credsOk = TRUE
    /\ answers = {}

\* main() after browser.get(APPOINTMENT_URL): any page, any configuration of
\* credentials and security answers; prefs holds what load_slot_prefs read
MainInit ==
    /\ disk = [start_date |-> Unset, end_date |-> Unset]
    /\ hookInstalled = FALSE
    /\ wrapLayers = 0
    /\ evals = 0
    /\ START_DATE = Unset
    /\ END_DATE = Unset
    /\ reloadPending = FALSE
    /\ req = NoReq
    /\ last = NoLast
    /\ mainPc = "waitroom"
    /\ sup = "off"
    /\ injectFailed = FALSE
    /\ installs = "none"
    /\ startPrefs = disk
    /\ page \in Pages
    /\ decision = NoDecision
    /\ loginPc = "idle"
    /\ found = {}
    /\ elemPolls = 0
    /\ kbaPolls = 0
    /\ urlPolls = 0
    /\ rendered = {}
    /\ filled = {}
    /\ clicks = <<>>
    /\ loginResult = "none"
    /\ credsOk \in BOOLEAN
    /\ answers \in SUBSET Slots

\* what main() and perform_login never write
cfgVars == <<startPrefs, credsOk, answers>>

\* everything a step of perform_login leaves alone
loginFrame == <<anaVars, hookRest, sup, capVars, cfgVars, page, decision>>

\* everything a step of main() outside perform_login leaves alone
mainFrame == <<anaVars, hookRest, sup, capVars, cfgVars, loginVars>>

\* is_waiting_room: the style attribute names the background image; an
\* inspection that raises is caught and False is returned
IsWaitingRoom(p, fails) == IF fails THEN FALSE ELSE p.wr

\* is_login_required with the URL test alone
IsLoginRequiredUrlOnly(p) == p.idp

\* is_login_required: b2clogin.com in the URL, or a password input
IsLoginRequired(p) == p.idp \/ p.pwd

\* the site moves the browser on while main() sleeps or awaits
PageChange ==
    /\ mainPc \in {"waitroom", "logincheck", "waitroom2"}
    /\ \E p \in Pages \ {page} : page' = p
    /\ UNCHANGED <<decision, mainPc, mainFrame>>

\* while await is_waiting_room(page): sleep 5 s and test again; the loop
\* before the login test and the loop after a successful login
WaitingRoomCheck ==
    /\ mainPc \in {"waitroom", "waitroom2"}
    /\ \E fails \in BOOLEAN :
         LET w == IsWaitingRoom(page, fails)
         IN /\ decision' = [made |-> TRUE,
                            kind |-> IF w THEN "WaitingRoom"
                                          ELSE "NotWaitingRoom",
                            failed |-> fails,
                            idp |-> page.idp, pwd |-> page.pwd, wr |-> page.wr]
            /\ mainPc' = IF w THEN mainPc
                         ELSE IF mainPc = "waitroom" THEN "logincheck"
                                                     ELSE "nav"
    /\ UNCHANGED <<page, mainFrame>>

\* if await is_login_required(page): page.select may raise, and main() has
\* no handler around it
LoginCheck ==
    /\ mainPc = "logincheck"
    /\ \E raises \in {r \in BOOLEAN : r => ~page.idp} :
         IF raises
         THEN mainPc' = "crashed" /\ decision' = decision
         ELSE LET l == IsLoginRequired(page)
              IN /\ decision' = [decision EXCEPT
                                    !.kind = IF l THEN "LoginChallenge"
                                                  ELSE "SchedulingPage",
                                    !.idp = page.idp, !.pwd = page.pwd]
                 /\ mainPc' = IF l THEN "front" ELSE "nav"
    /\ UNCHANGED <<page, mainFrame>>

\* await page.bring_to_front(), then perform_login(page) is entered
BringToFront ==
    /\ mainPc = "front"
    /\ \E raises \in BOOLEAN :
         IF raises
         THEN mainPc' = "crashed" /\ loginPc' = loginPc
         ELSE mainPc' = "login" /\ loginPc' = "creds"
    /\ UNCHANGED <<found, elemPolls, kbaPolls, urlPolls, rendered, filled,
                   clicks, loginResult, anaVars, hookRest, sup, capVars,
                   cfgVars, page, decision>>

\* a main() that tests the page again after a login that returned False
AfterLoginRetries(result) ==
    IF result = "Authenticated" THEN "waitroom2" ELSE "logincheck"

\* if not login_success: log only; else: the second waiting-room loop
AfterLogin(result) ==
    IF result = "Authenticated" THEN "waitroom2" ELSE "nav"

\* perform_login has returned: False falls through to the navigation, True
\* enters the second waiting-room loop
LoginReturn ==
    /\ mainPc = "login"
    /\ loginPc = "done"
    /\ loginResult \in {"Authenticated", "Failed"}
    /\ mainPc' = AfterLogin(loginResult)
    /\ UNCHANGED <<page, decision, mainFrame>>

\* a driver call raises inside perform_login: nothing in perform_login or
\* main() catches it
LoginRaises ==
    /\ loginPc' = "done"
    /\ loginResult' = "Raised"
    /\ mainPc' = "crashed"

\* return False
LoginFails ==
    /\ loginPc' = "done"
    /\ loginResult' = "Failed"
    /\ mainPc' = mainPc

\* return True
LoginSucceeds ==
    /\ loginPc' = "done"
    /\ loginResult' = "Authenticated"
    /\ mainPc' = mainPc

\* perform_login goes on to its next step
LoginGoes(pc) ==
    /\ loginPc' = pc
    /\ loginResult' = loginResult
    /\ mainPc' = mainPc

\* if not USERNAME or not PASSWORD: return False
LoginStart ==
    /\ mainPc = "login"
    /\ loginPc = "creds"
    /\ IF credsOk THEN LoginGoes("wait_user") ELSE LoginFails
    /\ UNCHANGED <<found, elemPolls, kbaPolls, urlPolls, rendered, filled,
                   clicks, loginFrame>>

\* the element each call of _wait_for_element looks for
Wanted(pc) ==
    CASE pc = "wait_user" -> "signInName"
      [] pc = "wait_pass" -> "password"
      [] pc = "wait_btn" -> "continue"
      [] OTHER -> "continue2"

\* for attempt in range(max_attempts)
PollsLeft(n, max) == n < max

\* a second screen that goes on to the URL wait without the second click
AfterLookupNoSecondSubmit(pc, f) ==
    CASE pc = "wait_user" -> "wait_pass"
      [] pc = "wait_pass" -> "wait_btn"
      [] pc = "wait_btn" ->
            IF {"signInName", "password", "continue"} \subseteq f
            THEN "fill_creds" ELSE "done"
      [] OTHER -> IF "continue2" \in f THEN "wait_url" ELSE "done"

\* what follows a call of _wait_for_element that has returned with the
\* elements f found so far: the three lookups of the first screen run one
\* after the other and are tested together; the second screen's button is
\* tested at once
AfterLookup(pc, f) ==
    CASE pc = "wait_user" -> "wait_pass"
      [] pc = "wait_pass" -> "wait_btn"
      [] pc = "wait_btn" ->
            IF {"signInName", "password", "continue"} \subseteq f
            THEN "fill_creds" ELSE "done"
      [] OTHER -> IF "continue2" \in f THEN "click2" ELSE "done"

\* _wait_for_element: one page.select(selector, timeout=1)
LookupPoll ==
    /\ mainPc = "login"
    /\ loginPc \in {"wait_user", "wait_pass", "wait_btn", "wait_btn2"}
    /\ PollsLeft(elemPolls, ElementPolls)
    /\ \E outcome \in {"found", "absent", "raises"} :
         CASE outcome = "found" ->
                 /\ found' = found \cup {Wanted(loginPc)}
                 /\ elemPolls' = 0
                 /\ LET nxt == AfterLookup(loginPc, found \cup {Wanted(loginPc)})
                    IN IF nxt = "done" THEN LoginFails ELSE LoginGoes(nxt)
           [] outcome = "absent" ->
                 /\ found' = found
                 /\ elemPolls' = elemPolls + 1
                 /\ LoginGoes(loginPc)
           [] OTHER ->
                 /\ found' = found
                 /\ elemPolls' = elemPolls
                 /\ LoginRaises
    /\ UNCHANGED <<kbaPolls, urlPolls, rendered, filled, clicks, loginFrame>>

\* _wait_for_element: the loop is exhausted, return None
LookupGiveUp ==
    /\ mainPc = "login"
    /\ loginPc \in {"wait_user", "wait_pass", "wait_btn", "wait_btn2"}
    /\ ~PollsLeft(elemPolls, ElementPolls)
    /\ elemPolls' = 0
    /\ LET nxt == AfterLookup(loginPc, found)
       IN IF nxt = "done" THEN LoginFails ELSE LoginGoes(nxt)
    /\ UNCHANGED <<found, kbaPolls, urlPolls, rendered, filled, clicks,
                   loginFrame>>

\* the two fields are cleared (errors ignored) and typed into; send_keys is
\* not guarded
FillCredentials ==
    /\ mainPc = "login"
    /\ loginPc = "fill_creds"
    /\ \E typed \in {{}, {"signInName"}, {"signInName", "password"}} :
         /\ filled' = filled \cup typed
         /\ IF typed = {"signInName", "password"}
            THEN LoginGoes("captcha") ELSE LoginRaises
    /\ UNCHANGED <<found, elemPolls, kbaPolls, urlPolls, rendered, clicks,
                   loginFrame>>

\* perform_login calls attempt_captcha_solve(page)
LoginCaptchaStart ==
    /\ mainPc = "login"
    /\ loginPc = "captcha"
    /\ capResult = "none"
    /\ CaptchaStart

\* a login that gives up when no captcha text was filled in
AfterCaptchaRequired(result) == IF result = "filled" THEN "click1" ELSE "done"

\* the value attempt_captcha_solve returns is not looked at
AfterCaptcha(result) == "click1"

\* attempt_captcha_solve has returned, or has raised while filling; its
\* loop counters end with the call, the registry stays
CaptchaReturn ==
    /\ mainPc = "login"
    /\ loginPc = "captcha"
    /\ capPc = "idle"
    /\ capResult \notin {"none", "running"}
    /\ IF capResult = "raised"
       THEN LoginRaises /\ filled' = filled
       ELSE /\ filled' = IF capResult = "filled"
                         THEN filled \cup {"captcha"} ELSE filled
            /\ LET nxt == AfterCaptcha(capResult)
               IN IF nxt = "done" THEN LoginFails ELSE LoginGoes(nxt)
    /\ attempt' = 0
    /\ polls' = 0
    /\ requests' = 0
    /\ UNCHANGED <<found, elemPolls, kbaPolls, urlPolls, rendered, clicks,
                   capPc, capImg, registry, solveCalls, sent, rounds, capResult,
                   anaVars, hookRest, sup, cfgVars, page, decision>>

\* await continue_btn.click()
ClickContinue ==
    /\ mainPc = "login"
    /\ loginPc = "click1"
    /\ \E raises \in BOOLEAN :
         IF raises
         THEN LoginRaises /\ clicks' = clicks
         ELSE LoginGoes("wait_kba") /\ clicks' = Append(clicks, "credentials")
    /\ UNCHANGED <<found, elemPolls, kbaPolls, urlPolls, rendered, filled,
                   loginFrame>>

\* one pass over the three selectors: the loop breaks when two or more
\* inputs are present, and its counter is not used again
KbaPoll ==
    /\ mainPc = "login"
    /\ loginPc = "wait_kba"
    /\ PollsLeft(kbaPolls, KbaWaitPolls)
    /\ \E raises \in BOOLEAN :
         IF raises
         THEN LoginRaises /\ UNCHANGED <<kbaPolls, rendered>>
         ELSE \E k \in SUBSET Slots :
                 IF Cardinality(k) >= 2
                 THEN /\ rendered' = k
                      /\ kbaPolls' = 0
                      /\ LoginGoes("fill_kba")
                 ELSE /\ rendered' = rendered
                      /\ kbaPolls' = kbaPolls + 1
                      /\ LoginGoes(loginPc)
    /\ UNCHANGED <<found, elemPolls, urlPolls, filled, clicks, loginFrame>>

\* the else branch of the for loop: return False
KbaTimeout ==
    /\ mainPc = "login"
    /\ loginPc = "wait_kba"
    /\ ~PollsLeft(kbaPolls, KbaWaitPolls)
    /\ LoginFails
    /\ UNCHANGED <<found, elemPolls, kbaPolls, urlPolls, rendered, filled,
                   clicks, loginFrame>>

\* a fill loop that stops at the first input without an answer
ToFillUntilMissing(r, a) ==
    {s \in r : \A t \in r : SlotNo(t) <= SlotNo(s) => t \in a}

\* the inputs the fill loop types into: those rendered whose selector has a
\* configured answer; the others are skipped with a warning
ToFill(r, a) == r \cap a

\* the fill loop over kba_inputs, in selector order; send_keys is not
\* guarded, so the loop may raise after any number of inputs
FillAnswers ==
    /\ mainPc = "login"
    /\ loginPc = "fill_kba"
    /\ LET all == ToFill(rendered, answers)
       IN \E typed \in {t \in SUBSET all :
                           \A x \in t, y \in all \ t :
                              SlotNo(x) < SlotNo(y)} :
            /\ filled' = filled \cup typed
            /\ elemPolls' = 0
            /\ IF typed = all THEN LoginGoes("wait_btn2") ELSE LoginRaises
    /\ UNCHANGED <<found, kbaPolls, urlPolls, rendered, clicks, loginFrame>>

\* await continue_btn2.click()
ClickContinue2 ==
    /\ mainPc = "login"
    /\ loginPc = "click2"
    /\ \E raises \in BOOLEAN :
         IF raises
         THEN LoginRaises /\ clicks' = clicks
         ELSE LoginGoes("wait_url") /\ clicks' = Append(clicks, "answers")
    /\ UNCHANGED <<found, elemPolls, kbaPolls, urlPolls, rendered, filled,
                   loginFrame>>

\* where location.href can point while the login completes
Urls == [sched : BOOLEAN, idp : BOOLEAN]

\* "usvisascheduling.com" in current_url and "b2clogin.com" not in it
UrlAccepted(u) == u.sched /\ ~u.idp

\* one reading of location.href; only AttributeError is caught
UrlPoll ==
    /\ mainPc = "login"
    /\ loginPc = "wait_url"
    /\ PollsLeft(urlPolls, UrlWaitPolls)
    /\ \E raises \in BOOLEAN :
         IF raises
         THEN LoginRaises /\ urlPolls' = urlPolls
         ELSE \E u \in Urls :
                 IF UrlAccepted(u)
                 THEN LoginSucceeds /\ urlPolls' = 0
                 ELSE LoginGoes(loginPc) /\ urlPolls' = urlPolls + 1
    /\ UNCHANGED <<found, elemPolls, kbaPolls, rendered, filled, clicks,
                   loginFrame>>

\* the loop is exhausted: return False
UrlTimeout ==
    /\ mainPc = "login"
    /\ loginPc = "wait_url"
    /\ ~PollsLeft(urlPolls, UrlWaitPolls)
    /\ LoginFails
    /\ UNCHANGED <<found, elemPolls, kbaPolls, urlPolls, rendered, filled,
                   clicks, loginFrame>>

(***************************************************************************)
(* Specifications.                                                         *)
(***************************************************************************)
Init == AnaIdle /\ HookInit /\ CapIdle /\ OrchIdle

Next ==
    \/ MainNavigateOk
    \/ MainNavigateFail
    \/ TickOk
    \/ TickFail
    \/ TimerReload
    \/ Navigate
    \/ PageRequest
    \/ Receive

\* the page, the hook and the supervisor, for any slot_prefs.json that stays
\* as main() left it
Spec == Init /\ [][Next]_vars

StoreNext ==
    \/ Next
    \/ PrefStoreChange

\* the same with a preference store that is rewritten during the run
StoreSpec == Init /\ [][StoreNext]_vars

\* the supervisor's loop sleeps and retries for ever, and injection
\* eventually succeeds
LiveSpec == Spec /\ WF_vars(TickOk)

AnalyseInit == AnaInit /\ HookIdle /\ CapIdle /\ OrchIdle

\* analyseAvailability on every body and preference
AnalyseSpec == AnalyseInit /\ [][AnalyseCall]_vars

CaptchaInit == AnaIdle /\ HookIdle /\ CapIdle /\ OrchIdle

CaptchaNext ==
    \/ CaptchaStart
    \/ ExtractPoll
    \/ ExtractGiveUp
    \/ RegistryCheck
    \/ SolveNoKey
    \/ SolveRequest
    \/ CaptchaFill

\* rounds of attempt_captcha_solve
CaptchaSpec == CaptchaInit /\ [][CaptchaNext]_vars

MainInitAll == AnaIdle /\ MainInit /\ CapIdle

MainNext ==
    \/ PageChange
    \/ WaitingRoomCheck
    \/ LoginCheck
    \/ BringToFront
    \/ LoginStart
    \/ LookupPoll
    \/ LookupGiveUp
    \/ FillCredentials
    \/ LoginCaptchaStart
    \/ ExtractPoll
    \/ ExtractGiveUp
    \/ RegistryCheck
    \/ SolveNoKey
    \/ SolveRequest
    \/ CaptchaFill
    \/ CaptchaReturn
    \/ ClickContinue
    \/ KbaPoll
    \/ KbaTimeout
    \/ FillAnswers
    \/ ClickContinue2
    \/ UrlPoll
    \/ UrlTimeout
    \/ LoginReturn
    \/ MainNavigateOk
    \/ MainNavigateFail

\* main() from the first waiting-room test to its idle loop
MainSpec == MainInitAll /\ [][MainNext]_vars



(***************************************************************************)
(* Properties.                                                             *)
(***************************************************************************)
\* some entry of the list is a calendar day d with s <= d <= e
SomeDayWithin(days, s, e) ==
    \E i \in 1..Len(days) : days[i] \in Days /\ s <= days[i] /\ days[i] <= e

\* C1: with both bounds set, analyseAvailability finds slots iff some day of
\* the list lies in [START_DATE, END_DATE], both boundary days included; with
\* both bounds empty it finds slots iff the list is non-empty.
C1_RangeFilter ==
    (anaOut.done /\ anaJson.kind = "array") =>
        /\ (anaStart # Unset /\ anaEnd # Unset) =>
              (anaOut.hasSlots <=> SomeDayWithin(anaJson.days, anaStart, anaEnd))
        /\ (anaStart = Unset /\ anaEnd = Unset) =>
              (anaOut.hasSlots <=> Len(anaJson.days) > 0)

\* a list holding exactly the two boundary days of a proper range was analysed
C1_Witness ==
    /\ anaOut.done /\ anaOut.hasSlots
    /\ anaStart # Unset /\ anaEnd # Unset /\ anaStart < anaEnd
    /\ anaJson.kind = "array" /\ anaJson.days = <<anaEnd>>

\* C2: a response analysed by the hook requests the notification sink exactly
\* once when a day is available (a day of the list inside the configured
\* range) and not at all otherwise.
C2_NotifyOncePerAvailability ==
    (last.seen /\ last.analysed = 1) =>
        /\ last.notified = (IF last.hasSlots THEN 1 ELSE 0)
        /\ (START_DATE # Unset /\ END_DATE # Unset /\ last.body.kind = "array") =>
              (last.notified = 1 <=>
                  SomeDayWithin(last.body.days, START_DATE, END_DATE))

\* scenario A: one day inside the configured range, one notification
C2_Witness ==
    /\ last.seen /\ last.analysed = 1 /\ last.notified = 1
    /\ START_DATE # Unset /\ END_DATE # Unset
    /\ Len(last.body.days) = 1

\* C3 (as claimed): once the supervisor runs, every target response the page
\* receives is observed by a hook, also in a context that a navigation has
\* reset and that no tick has hooked again yet.
C3_NoFalseNegatives ==
    (sup = "running" /\ installs # "none" /\ ~hookInstalled
        /\ last.seen /\ last.target) => last.observed >= 1

\* C4 (as claimed): exactly one hook instance is active in every state.
C4_ExactlyOneHook == wrapLayers = 1

\* C4 (amended): never more than one hook instance is active, and one is
\* active exactly while the guard flag of the page context is set.
C4_AtMostOneHook ==
    /\ wrapLayers <= 1
    /\ hookInstalled <=> wrapLayers = 1

\* a context hooked again after a navigation, and injected into once more
C4_Witness ==
    installs = "again" /\ wrapLayers = 1 /\ evals >= 2

\* C5: a further evaluation of hook_js in a hooked context wraps nothing
\* again, and a response sent after any number of evaluations is observed,
\* analysed, notified and reload-scheduled at most once.
C5_InstallIdempotent ==
    /\ evals >= 2 => (hookInstalled /\ wrapLayers = 1)
    /\ req.active => req.layers <= 1
    /\ last.seen =>
          /\ last.observed <= 1 /\ last.analysed <= 1
          /\ last.notified <= 1 /\ last.reloads <= 1

\* a target response sent after a second evaluation caused each effect once
C5_Witness ==
    /\ last.seen /\ last.evals >= 2
    /\ last.analysed = 1 /\ last.notified = 1 /\ last.reloads = 1

\* C6 (as claimed): every target response the hook observes schedules a
\* reload, whatever its body.
C6_ReloadRegardless ==
    (last.seen /\ last.observed >= 1) => last.reloads >= 1

\* a body the claim calls malformed: not JSON, no ScheduleDays array, or
\* a list none of whose entries has a date that parses
Malformed(body) ==
    \/ body.kind \in {"invalid", "nodays", "notarray"}
    \/ /\ Len(body.days) > 0
       /\ \A i \in 1..Len(body.days) : body.days[i] = Unparseable

\* C7 (as claimed): a malformed response body gives availability = false and
\* no notification.
C7_MalformedNeverNotifies ==
    (last.seen /\ Malformed(last.body)) =>
        (~last.hasSlots /\ last.notified = 0)

\* C8: an injection error never ends the supervisor, and a context without a
\* hook is hooked again by a later tick.
C8_SupervisorSelfHeals ==
    /\ [][sup = "running" => sup' = "running"]_vars
    /\ (sup = "running" /\ ~hookInstalled) ~> hookInstalled

\* after a failed injection the supervisor still runs, and the context that
\* followed a navigation is hooked again
C8_Witness ==
    sup = "running" /\ injectFailed /\ installs = "again" /\ hookInstalled

\* C9: one _extract_captcha_data_url call polls at most MAX_RETRIES times
\* (exactly MAX_RETRIES before NotFound) and one _solve_captcha_with_openai
\* call sends at most MAX_RETRIES requests.
C9_BoundedRetries ==
    /\ polls <= MAX_RETRIES
    /\ requests <= MAX_RETRIES
    /\ capResult = "notfound" => polls = MAX_RETRIES

\* a round whose extraction took the last poll and whose solve failed on
\* the last request
C9_Witness ==
    polls = MAX_RETRIES /\ requests = MAX_RETRIES /\ capResult = "failure"

\* C10: no image gets more than MAX_RETRIES solver calls, the registry counts
\* exactly the calls made, and a round that finds the count at MAX_RETRIES
\* returns without calling the solver.
C10_PerImageCap ==
    /\ \A i \in Images :
          solveCalls[i] <= MAX_RETRIES /\ solveCalls[i] = registry[i]
    /\ capResult = "capped" => solveCalls[capImg] = MAX_RETRIES
    /\ (capPc \in {"solve", "fill"}) => solveCalls[capImg] >= 1

\* a round was refused for an image that had its MAX_RETRIES solver calls
C10_Witness ==
    capResult = "capped" /\ solveCalls[capImg] = MAX_RETRIES /\ capPc = "idle"


\* C11: a login is Authenticated only with every rendered security-question
\* input that has a configured answer filled and the others left blank, and
\* the fill loop never ends the login as Failed.
C11_AnswersFilled ==
    /\ [](loginResult = "Authenticated"
             => filled \cap Slots = rendered \cap answers)
    /\ [][loginPc = "fill_kba" => loginResult' # "Failed"]_vars

C11_Witness ==
    /\ loginResult = "Authenticated"
    /\ rendered \ answers # {}
    /\ rendered \cap answers # {}

\* the results of attempt_captcha_solve that stand for "no text obtained"
NoCaptchaText == {"notfound", "failure", "capped"}

\* C12: when the captcha call ends without a text (image not found, solver
\* failure, attempt cap), perform_login goes on to the click on the
\* credentials screen; the response field is filled only with a text.
C12_CaptchaOptional ==
    /\ []("captcha" \in filled => capResult = "filled")
    /\ [][(loginPc = "captcha" /\ loginPc' # "captcha"
              /\ capResult \in NoCaptchaText)
            => (loginPc' = "click1" /\ loginResult' = "none")]_vars

C12_Witness ==
    /\ capResult = "notfound"
    /\ clicks = <<"credentials">>
    /\ "captcha" \notin filled

\* C13 (as claimed): no component failure ends main(): the process is never
\* terminated by an exception.
C13_NothingPropagates == mainPc # "crashed"

\* the state of the login state machine
LoginState ==
    CASE loginResult = "Authenticated" -> "Authenticated"
      [] loginResult = "Failed" -> "Failed"
      [] loginResult = "Raised" -> "Raised"
      [] loginPc = "idle" -> "NotStarted"
      [] loginPc \in {"wait_kba", "fill_kba", "wait_btn2", "click2",
                      "wait_url"} -> "AwaitingSecurityQuestions"
      [] OTHER -> "AwaitingCredentialsScreen"

LoginRank(st) ==
    CASE st = "NotStarted" -> 0
      [] st = "AwaitingCredentialsScreen" -> 1
      [] st = "AwaitingSecurityQuestions" -> 2
      [] st = "Authenticated" -> 3
      [] OTHER -> 4

\* C14: the login only moves forward, it is Authenticated only after the
\* credentials click and then the answers click, and after Failed (or
\* Authenticated) nothing of the login or the captcha chain changes.
C14_ForwardOnly ==
    /\ [](loginResult = "Authenticated"
             => clicks = <<"credentials", "answers">>)
    /\ [][/\ LoginRank(LoginState') >= LoginRank(LoginState)
          /\ loginResult \in {"Failed", "Authenticated"}
                => UNCHANGED <<loginVars, capVars>>]_vars

C14_Witness ==
    /\ loginResult = "Authenticated"
    /\ clicks = <<"credentials", "answers">>
    /\ mainPc = "idle"

\* C15 (as claimed): perform_login ends as Authenticated or as Failed.
C15_EndsAuthenticatedOrFailed ==
    loginPc = "done" => loginResult \in {"Authenticated", "Failed"}

\* C16 (as claimed): once main() idles, the forced navigation has been made
\* and the supervisor has been started.
C16_SupervisorStarted == mainPc = "idle" => sup = "running"

\* first match wins, the waiting-room background first
WaitingRoomFirst(d) ==
    IF d.wr THEN "WaitingRoom"
    ELSE IF d.idp \/ d.pwd THEN "LoginChallenge" ELSE "SchedulingPage"

\* first match wins, the login signals first
LoginSignalsFirst(d) ==
    IF d.idp \/ d.pwd THEN "LoginChallenge"
    ELSE IF d.wr THEN "WaitingRoom" ELSE "SchedulingPage"

\* C17 (as claimed): every page is handled by the order identity-provider
\* URL, password input, waiting-room background, scheduling page.
C17_LoginSignalsWin ==
    (decision.made /\ ~decision.failed /\ decision.kind # "NotWaitingRoom")
        => decision.kind = LoginSignalsFirst(decision)

\* C17 (corrected): the waiting-room background is tested first and wins;
\* only a page without it is tested for the login signals.
C17_WaitingRoomWins ==
    (decision.made /\ ~decision.failed) =>
        \/ decision.kind = "NotWaitingRoom" /\ ~decision.wr
        \/ decision.kind = WaitingRoomFirst(decision)

C17_Witness ==
    /\ decision.made
    /\ ~decision.failed
    /\ decision.kind = "WaitingRoom"
    /\ decision.pwd
    /\ decision.wr

\* C18 (as claimed): after a failed inspection the orchestrator is still in
\* its waiting-room wait.
C18_FailedInspectionRetries ==
    decision.failed => mainPc \in {"waitroom", "waitroom2"}

\* C19: the page's caller gets the response, or the rejection, that the
\* original fetch / send produced, with its body unread, whether or not the
\* URL matches and whether or not the wrapper's own code raised.
C19_ObservesWithoutAltering ==
    last.seen =>
        last.caller = [kind |-> IF last.rejected THEN "rejection"
                                                  ELSE "response",
                       bodyUsed |-> FALSE]

C19_Witness ==
    /\ last.seen
    /\ last.hookErr
    /\ last.evals > 0
    /\ last.caller.kind = "response"

\* C20 (as claimed): every installed hook filters with the pair that main()
\* loaded at startup.
C20_PrefsImmutable ==
    hookInstalled =>
        /\ START_DATE = startPrefs.start_date
        /\ END_DATE = startPrefs.end_date


\* C21: perform_login is entered only when it has never been entered before
\* (so at most once in a run and never during a call in progress), and after
\* it has returned Failed nothing of the login runs again.
C21_SingleLogin ==
    /\ [][loginPc' = "creds" => loginPc = "idle"]_vars
    /\ [][loginPc # "idle" => loginPc' # "idle"]_vars
    /\ [][loginResult = "Failed"
            => (UNCHANGED loginVars /\ mainPc' \notin {"logincheck", "front",
                                                       "login"})]_vars

\* a login failed after its first click and main() went on to idle
C21_Witness ==
    /\ loginResult = "Failed"
    /\ clicks = <<"credentials">>
    /\ mainPc = "idle"


\* exactly one of START_DATE / END_DATE is the empty string
OneSided(start, end) == (start = Unset) # (end = Unset)

\* C22: with exactly one bound set, analyseAvailability does not filter: it
\* finds slots iff ScheduleDays is a non-empty array, and notifies then.
C22_OneSidedNoFilter ==
    (anaOut.done /\ OneSided(anaStart, anaEnd)) =>
        /\ anaOut.hasSlots <=>
              (anaJson.kind = "array" /\ Len(anaJson.days) > 0)
        /\ anaOut.notified = IF anaOut.hasSlots THEN 1 ELSE 0

\* only a start date is set and the one day listed lies before it: notified
C22_Witness ==
    /\ anaOut.done
    /\ anaStart # Unset /\ anaEnd = Unset
    /\ anaJson.kind = "array" /\ Len(anaJson.days) = 1
    /\ anaJson.days[1] \in Days /\ anaJson.days[1] < anaStart
    /\ anaOut.notified = 1


\* C23: over any sequence of attempt_captcha_solve calls no image has more
\* than MAX_RETRIES * MAX_RETRIES requests sent to the vision service: at
\* most MAX_RETRIES for each solver call the registry has counted, and the
\* registry counts a call before its first request.
C23_TotalRequestsCap ==
    /\ \A i \in Images :
          /\ sent[i] <= MAX_RETRIES * MAX_RETRIES
          /\ sent[i] <= MAX_RETRIES * registry[i]
    /\ capPc = "solve" => registry[capImg] >= 1

\* an image reached the cap: MAX_RETRIES solver calls of MAX_RETRIES
\* failing requests each, and the next round was refused
C23_Witness ==
    /\ sent[capImg] = MAX_RETRIES * MAX_RETRIES
    /\ capResult = "capped"

=========================================================================
